---- MODULE Spec2Model ----
(***************************************************************************)
(* Model of the portfolio backend (src/main.py): the contact-submission    *)
(* pipeline (validate -> persist -> schedule notify -> respond, with the   *)
(* notification running as a background task) and the free-text search     *)
(* over the in-memory catalog.                                             *)
(*                                                                         *)
(* Abstractions:                                                           *)
(*  - a contact field is represented by its length, the only attribute of  *)
(*    the string the code inspects; the email by one of two sample strings;*)
(*  - uuid.uuid4() is a fresh value (collisions of 122 random bits are     *)
(*    neglected), rendered "uuid-<k>";                                     *)
(*  - contact_messages.json is represented by whether it exists, whether   *)
(*    its text parses as JSON, and the list json.load would return;        *)
(*  - catalog strings are sequences of one-character strings.              *)
(***************************************************************************)
EXTENDS Integers, Sequences, FiniteSets, TLC

VARIABLES
    file,        \* contact_messages.json
    issued,      \* number of uuid4 values generated so far
    clock,       \* datetime.now()
    running,     \* the requests whose handler body is being executed
    pc,          \* position of each request's handler
    contact,     \* the request body of each request
    messages,    \* local variable `messages` of save_contact_message
    saved,       \* outcome of save_contact_message: raised or returned value
    task,        \* state of the background task added for each request
    response,    \* HTTP response produced for each request
    emailed,     \* outcome of send_email for each request
    events,      \* per request, the pipeline events in the order they happened
    errorLog,    \* what save_contact_message has passed to logger.error
    PROJECTS_DATA, \* the in-memory project list
    searchOut,   \* the latest return value of search_content
    projectOut   \* the latest answer of the /api/projects endpoints

contactVars == <<file, issued, clock, running, pc, contact, messages, saved,
                 task, response, emailed, events, errorLog>>
catalogVars == <<PROJECTS_DATA, searchOut, projectOut>>
vars == <<contactVars, catalogVars>>

----------------------------------------------------------------------------
(* Bounds *)

MaxRequests == 2
MaxCreated == 1
MaxQueryLen == 3

Requests == 1..MaxRequests

None == "null"

----------------------------------------------------------------------------
(* ContactMessage: field constraints, main.py 43-47 *)

NameMin == 2
NameMax == 100
SubjectMin == 5
SubjectMax == 200
MessageMin == 10
MessageMax == 1000

\* Sample request bodies: the shortest and the longest body that satisfy every
\* constraint, and each of them with one field moved just past its bound.
Shortest == [name |-> NameMin, email |-> "a@b.co", subject |-> SubjectMin,
             message |-> MessageMin]
Longest == [name |-> NameMax, email |-> "a@b.co", subject |-> SubjectMax,
            message |-> MessageMax]
Bodies ==
    {Shortest, Longest,
     [Shortest EXCEPT !.name = NameMin - 1], [Longest EXCEPT !.name = NameMax + 1],
     [Shortest EXCEPT !.email = "not-an-email"],
     [Shortest EXCEPT !.subject = SubjectMin - 1],
     [Longest EXCEPT !.subject = SubjectMax + 1],
     [Shortest EXCEPT !.message = MessageMin - 1],
     [Longest EXCEPT !.message = MessageMax + 1]}

\* EmailStr: the syntax check of the email field.
EmailStr(e) == e = "a@b.co"

NameOk(c) == c.name >= NameMin /\ c.name <= NameMax
SubjectOk(c) == c.subject >= SubjectMin /\ c.subject <= SubjectMax
MessageOk(c) == c.message >= MessageMin /\ c.message <= MessageMax

AcceptsAnything(c) == TRUE

\* Request-body validation of ContactMessage.
ContactMessage(c) == NameOk(c) /\ EmailStr(c.email) /\ SubjectOk(c) /\ MessageOk(c)

NoBody == [name |-> 0, email |-> "", subject |-> 0, message |-> 0]

----------------------------------------------------------------------------
(* Contact record store: save_contact_message, main.py 346-373 *)

\* contact_messages.json before the first submission of a deployment.
NoFile == [exists |-> FALSE, valid |-> FALSE, records |-> <<>>]

\* A store left by an earlier run of the server, holding one record.
EarlierRecord == [id |-> "uuid-0", name |-> NameMin, email |-> "a@b.co",
                  subject |-> SubjectMin, message |-> MessageMin, timestamp |-> 0]
EarlierFile == [exists |-> TRUE, valid |-> TRUE, records |-> <<EarlierRecord>>]

\* What a reader of the store gets: the parsed list, or nothing.
StoreContent(f) == IF f.exists /\ f.valid THEN f.records ELSE <<>>

\* How a call ended: it returned a value, or it raised an exception.
Returned(v) == [raised |-> FALSE, value |-> v, error |-> ""]
Raised(e) == [raised |-> TRUE, value |-> None, error |-> e]
NotCalled == [raised |-> FALSE, value |-> "not-called", error |-> ""]

\* str(uuid.uuid4())
uuid4 == "uuid-" \o ToString(issued + 1)

LoadTreatsBadAsEmpty(f, readable) == Returned(StoreContent(f))

\* Lines 349-354: messages = [] unless the file exists, then json.load of it.
\* open(..., 'r') raises when the file cannot be read (readable = FALSE) and
\* json.load raises when its text is not JSON.
LoadMessages(f, readable) ==
    IF ~f.exists THEN Returned(<<>>)
    ELSE IF ~readable THEN Raised("OSError")
    ELSE IF ~f.valid THEN Raised("JSONDecodeError")
    ELSE Returned(f.records)

\* Lines 356-363: message_data.
message_data(c) ==
    [id |-> uuid4, name |-> c.name, email |-> c.email, subject |-> c.subject,
     message |-> c.message, timestamp |-> clock]

OverwriteMessages(msgs, rec) == <<rec>>

\* Line 365: messages.append(message_data).
AppendMessage(msgs, rec) == Append(msgs, rec)

\* Lines 367-368: open(messages_file, 'w') and json.dump. open raising leaves
\* the file as it was; open truncates the file, so json.dump raising leaves
\* text that is not JSON.
WriteOutcomes == {"written", "open_raises", "dump_raises"}

DumpMessages(f, msgs, w) ==
    CASE w = "written" -> [exists |-> TRUE, valid |-> TRUE, records |-> msgs]
      [] w = "open_raises" -> f
      [] w = "dump_raises" -> [exists |-> TRUE, valid |-> FALSE, records |-> <<>>]

ExceptReraises(e) == Raised(e)

\* Lines 371-373: except Exception as e: log it and return None.
SaveExcept(e) == Returned(None)

----------------------------------------------------------------------------
(* Notifier: send_email, main.py 310-344 *)

SendEmailPropagates(smtpOk) == IF smtpOk THEN Returned(TRUE) ELSE Raised("SMTPException")

\* The SMTP conversation succeeds (return True, line 341) or raises somewhere
\* in lines 312-338 and the except of lines 342-344 returns False.
send_email(smtpOk) == Returned(smtpOk)

NotSent == [raised |-> FALSE, value |-> "not-run", error |-> ""]

----------------------------------------------------------------------------
(* POST /api/contact: submit_contact, main.py 492-512 *)

NoResponse == [status |-> 0, success |-> FALSE, id |-> None]
ValidationFailure == [status |-> 422, success |-> FALSE, id |-> None]
InternalError == [status |-> 500, success |-> FALSE, id |-> None]

\* Lines 502-506: ContactResponse(success=True, message=..., id=message_id).
ContactResponse(message_id) == [status |-> 200, success |-> TRUE, id |-> message_id]

Logged(r, e) == [events EXCEPT ![r] = Append(@, e)]

RunsOnAnyThread(r) == TRUE

\* submit_contact is `async def` and its body has no await: once the body of
\* one request has started, no other request's body runs until it returns.
MayRun(r) == running \subseteq {r}

StartsWhenScheduled(r) == TRUE

\* A task added to BackgroundTasks is run once the handler has returned its
\* response.
BackgroundMayStart(r) == pc[r] = "responded"

ContactInit ==
    /\ file \in {NoFile, EarlierFile}
    /\ issued = 0
    /\ clock = 1
    /\ running = {}
    /\ pc = [r \in Requests |-> "idle"]
    /\ contact = [r \in Requests |-> NoBody]
    /\ messages = [r \in Requests |-> <<>>]
    /\ saved = [r \in Requests |-> NotCalled]
    /\ task = [r \in Requests |-> "none"]
    /\ response = [r \in Requests |-> NoResponse]
    /\ emailed = [r \in Requests |-> NotSent]
    /\ events = [r \in Requests |-> <<>>]
    /\ errorLog = <<>>

\* A POST /api/contact arrives with body c. The body is parsed into a
\* ContactMessage before submit_contact is called; a body that violates a
\* constraint is answered 422 and the handler is not called.
Submit(r, c) ==
    /\ pc[r] = "idle"
    /\ contact' = [contact EXCEPT ![r] = c]
    /\ IF ContactMessage(c)
       THEN /\ pc' = [pc EXCEPT ![r] = "queued"]
            /\ UNCHANGED response
       ELSE /\ pc' = [pc EXCEPT ![r] = "rejected"]
            /\ response' = [response EXCEPT ![r] = ValidationFailure]
    /\ UNCHANGED <<file, issued, clock, running, messages, saved, task, emailed, events,
                   errorLog>>
    /\ UNCHANGED catalogVars

\* Line 497 into save_contact_message, lines 348-354: read the existing list.
\* A raise goes to the except of lines 371-373.
Load(r, readable) ==
    /\ pc[r] = "queued"
    /\ MayRun(r)
    /\ running' = running \cup {r}
    /\ LET out == LoadMessages(file, readable)
       IN IF out.raised
          THEN /\ saved' = [saved EXCEPT ![r] = SaveExcept(out.error)]
               /\ errorLog' = Append(errorLog, out.error)
               /\ pc' = [pc EXCEPT ![r] = "saved"]
               /\ events' = Logged(r, "persist")
               /\ UNCHANGED messages
          ELSE /\ messages' = [messages EXCEPT ![r] = out.value]
               /\ pc' = [pc EXCEPT ![r] = "loaded"]
               /\ UNCHANGED <<saved, events, errorLog>>
    /\ UNCHANGED <<file, issued, clock, contact, task, response, emailed>>
    /\ UNCHANGED catalogVars

\* save_contact_message, lines 356-373: build the record, append it, write the
\* whole list back and return the id, or None when the write raises.
Store(r, w) ==
    /\ pc[r] = "loaded"
    /\ MayRun(r)
    /\ LET rec == message_data(contact[r])
           msgs == AppendMessage(messages[r], rec)
       IN /\ file' = DumpMessages(file, msgs, w)
          /\ saved' = [saved EXCEPT ![r] = IF w = "written" THEN Returned(rec.id)
                                                             ELSE SaveExcept("OSError")]
          /\ errorLog' = IF w = "written" THEN errorLog ELSE Append(errorLog, "OSError")
    /\ issued' = issued + 1
    /\ clock' = clock + 1
    /\ messages' = [messages EXCEPT ![r] = <<>>]
    /\ pc' = [pc EXCEPT ![r] = "saved"]
    /\ events' = Logged(r, "persist")
    /\ UNCHANGED <<running, contact, task, response, emailed>>
    /\ UNCHANGED catalogVars

\* Line 500: background_tasks.add_task(send_email, contact); had line 497
\* raised, the except of lines 507-512 would answer 500 instead.
AddTask(r) ==
    /\ pc[r] = "saved"
    /\ MayRun(r)
    /\ IF saved[r].raised
       THEN /\ response' = [response EXCEPT ![r] = InternalError]
            /\ pc' = [pc EXCEPT ![r] = "responded"]
            /\ running' = running \ {r}
            /\ events' = Logged(r, "response")
            /\ UNCHANGED task
       ELSE /\ task' = [task EXCEPT ![r] = "scheduled"]
            /\ pc' = [pc EXCEPT ![r] = "scheduled"]
            /\ events' = Logged(r, "scheduled")
            /\ UNCHANGED <<response, running>>
    /\ UNCHANGED <<file, issued, clock, contact, messages, saved, emailed, errorLog>>
    /\ UNCHANGED catalogVars

\* Lines 502-506: return the ContactResponse.
Return(r) ==
    /\ pc[r] = "scheduled"
    /\ MayRun(r)
    /\ response' = [response EXCEPT ![r] = ContactResponse(saved[r].value)]
    /\ pc' = [pc EXCEPT ![r] = "responded"]
    /\ running' = running \ {r}
    /\ events' = Logged(r, "response")
    /\ UNCHANGED <<file, issued, clock, contact, messages, saved, task, emailed,
                   errorLog>>
    /\ UNCHANGED catalogVars

\* The background task starts: send_email(contact) is called.
RunBackground(r) ==
    /\ task[r] = "scheduled"
    /\ BackgroundMayStart(r)
    /\ task' = [task EXCEPT ![r] = "running"]
    /\ events' = Logged(r, "notify")
    /\ UNCHANGED <<file, issued, clock, running, pc, contact, messages, saved,
                   response, emailed, errorLog>>
    /\ UNCHANGED catalogVars

\* send_email runs to its end, lines 312-344.
SendEmail(r, smtpOk) ==
    /\ task[r] = "running"
    /\ emailed' = [emailed EXCEPT ![r] = send_email(smtpOk)]
    /\ task' = [task EXCEPT ![r] = "done"]
    /\ UNCHANGED <<file, issued, clock, running, pc, contact, messages, saved,
                   response, events, errorLog>>
    /\ UNCHANGED catalogVars

----------------------------------------------------------------------------
(* Data catalog, main.py 126-196 *)

\* PROJECTS_DATA as the module is loaded, main.py 127-183. The searched fields
\* (title, description, tech) are spelt out character by character.
InitialProjects ==
    <<
     [id |-> "1",
      title |->
        <<"A","m","a","z","o","n"," ","C","l","o","n","e">>,
      category |-> "E-commerce Platform",
      description |->
        <<"F","u","l","l","-","f","e","a","t","u","r","e","d"," ","e","-",
          "c","o","m","m","e","r","c","e"," ","p","l","a","t","f","o","r",
          "m"," ","w","i","t","h"," ","s","h","o","p","p","i","n","g"," ",
          "c","a","r","t",","," ","p","a","y","m","e","n","t"," ","i","n",
          "t","e","g","r","a","t","i","o","n",","," ","a","n","d"," ","u",
          "s","e","r"," ","a","u","t","h","e","n","t","i","c","a","t","i",
          "o","n","."," ","B","u","i","l","t"," ","w","i","t","h"," ","m",
          "o","d","e","r","n"," ","J","a","v","a","S","c","r","i","p","t",
          " ","a","n","d"," ","r","e","s","p","o","n","s","i","v","e"," ",
          "d","e","s","i","g","n"," ","p","r","i","n","c","i","p","l","e",
          "s",".">>,
      tech |->
        <<<<"J","a","v","a","S","c","r","i","p","t">>,
          <<"H","T","M","L","5">>,
          <<"C","S","S","3">>,
          <<"L","o","c","a","l","S","t","o","r","a","g","e">>,
          <<"R","e","s","p","o","n","s","i","v","e"," ","D","e","s","i",
            "g","n">>>>,
      github |-> "https://github.com/ArunDev-07",
      demo |-> "https://arun-amazon-clone.netlify.app",
      featured |-> TRUE,
      created_at |-> 0],
     [id |-> "2",
      title |->
        <<"M","o","v","i","e"," ","D","i","s","c","o","v","e","r","y"," ",
          "A","p","p">>,
      category |-> "Entertainment Platform",
      description |->
        <<"I","n","t","e","r","a","c","t","i","v","e"," ","m","o","v","i",
          "e"," ","d","i","s","c","o","v","e","r","y"," ","a","p","p","l",
          "i","c","a","t","i","o","n"," ","w","i","t","h"," ","T","M","D",
          "B"," ","A","P","I"," ","i","n","t","e","g","r","a","t","i","o",
          "n",","," ","s","e","a","r","c","h"," ","f","u","n","c","t","i",
          "o","n","a","l","i","t","y",","," ","a","n","d"," ","d","e","t",
          "a","i","l","e","d"," ","m","o","v","i","e"," ","i","n","f","o",
          "r","m","a","t","i","o","n"," ","w","i","t","h"," ","t","r","a",
          "i","l","e","r","s",".">>,
      tech |->
        <<<<"R","e","a","c","t"," ","J","S">>,
          <<"T","M","D","B"," ","A","P","I">>,
          <<"T","a","i","l","w","i","n","d"," ","C","S","S">>,
          <<"R","e","a","c","t"," ","R","o","u","t","e","r">>,
          <<"A","x","i","o","s">>>>,
      github |-> "https://github.com/ArunDev-07/Movie-App.git",
      demo |-> "https://arun-movie-app.netlify.app",
      featured |-> TRUE,
      created_at |-> 0],
     [id |-> "3",
      title |->
        <<"W","e","a","t","h","e","r"," ","F","o","r","e","c","a","s","t",
          " ","A","p","p">>,
      category |-> "Weather Service",
      description |->
        <<"R","e","a","l","-","t","i","m","e"," ","w","e","a","t","h","e",
          "r"," ","a","p","p","l","i","c","a","t","i","o","n"," ","w","i",
          "t","h"," ","l","o","c","a","t","i","o","n","-","b","a","s","e",
          "d"," ","f","o","r","e","c","a","s","t","i","n","g",","," ","5",
          "-","d","a","y"," ","p","r","e","d","i","c","t","i","o","n","s",
          ","," ","a","n","d"," ","i","n","t","e","r","a","c","t","i","v",
          "e"," ","w","e","a","t","h","e","r"," ","m","a","p","s",".">>,
      tech |->
        <<<<"R","e","a","c","t"," ","J","S">>,
          <<"O","p","e","n","W","e","a","t","h","e","r"," ","A","P","I">>,
          <<"G","e","o","l","o","c","a","t","i","o","n"," ","A","P","I">>,
          <<"C","h","a","r","t",".","j","s">>>>,
      github |-> "https://github.com/ArunDev-07/Weather-App",
      demo |-> "https://arun-weather-app.netlify.app",
      featured |-> FALSE,
      created_at |-> 0],
     [id |-> "4",
      title |->
        <<"C","u","r","r","e","n","c","y"," ","C","o","n","v","e","r","t",
          "e","r">>,
      category |-> "Financial Tool",
      description |->
        <<"R","e","a","l","-","t","i","m","e"," ","c","u","r","r","e","n",
          "c","y"," ","c","o","n","v","e","r","s","i","o","n"," ","a","p",
          "p","l","i","c","a","t","i","o","n"," ","w","i","t","h"," ","h",
          "i","s","t","o","r","i","c","a","l"," ","d","a","t","a",","," ",
          "m","u","l","t","i","p","l","e"," ","c","u","r","r","e","n","c",
          "i","e","s",","," ","a","n","d"," ","e","x","c","h","a","n","g",
          "e"," ","r","a","t","e"," ","t","r","e","n","d","s",".">>,
      tech |->
        <<<<"R","e","a","c","t"," ","J","S">>,
          <<"E","x","c","h","a","n","g","e"," ","R","a","t","e"," ","A",
            "P","I">>,
          <<"C","h","a","r","t",".","j","s">>,
          <<"M","a","t","e","r","i","a","l","-","U","I">>>>,
      github |-> "https://github.com/ArunDev-07/Currency-Converter",
      demo |-> "https://arun-currency-converter.netlify.app",
      featured |-> FALSE,
      created_at |-> 0],
     [id |-> "5",
      title |->
        <<"C","R","U","D"," ","T","a","s","k"," ","M","a","n","a","g","e",
          "r">>,
      category |-> "Data Management",
      description |->
        <<"C","o","m","p","l","e","t","e"," ","t","a","s","k"," ","m","a",
          "n","a","g","e","m","e","n","t"," ","a","p","p","l","i","c","a",
          "t","i","o","n"," ","w","i","t","h"," ","C","R","U","D"," ","o",
          "p","e","r","a","t","i","o","n","s",","," ","f","i","l","t","e",
          "r","i","n","g",","," ","s","o","r","t","i","n","g",","," ","a",
          "n","d"," ","d","a","t","a"," ","p","e","r","s","i","s","t","e",
          "n","c","e",".">>,
      tech |->
        <<<<"R","e","a","c","t"," ","J","S">>,
          <<"C","o","n","t","e","x","t"," ","A","P","I">>,
          <<"L","o","c","a","l","S","t","o","r","a","g","e">>,
          <<"R","e","a","c","t"," ","H","o","o","k","s">>>>,
      github |-> "https://github.com/ArunDev-07/CRUD-App",
      demo |-> "https://arun-task-manager.netlify.app",
      featured |-> FALSE,
      created_at |-> 0]
    >>

\* SKILLS_DATA, main.py 185-196.
SKILLS_DATA ==
    <<
     [name |-> <<"R","e","a","c","t"," ","J","S">>,
      level |-> 90,
      category |-> <<"F","r","o","n","t","e","n","d">>],
     [name |-> <<"J","a","v","a","S","c","r","i","p","t">>,
      level |-> 85,
      category |-> <<"F","r","o","n","t","e","n","d">>],
     [name |-> <<"H","T","M","L">>,
      level |-> 95,
      category |-> <<"F","r","o","n","t","e","n","d">>],
     [name |-> <<"C","S","S">>,
      level |-> 92,
      category |-> <<"F","r","o","n","t","e","n","d">>],
     [name |-> <<"T","y","p","e","S","c","r","i","p","t">>,
      level |-> 75,
      category |-> <<"F","r","o","n","t","e","n","d">>],
     [name |-> <<"T","a","i","l","w","i","n","d"," ","C","S","S">>,
      level |-> 88,
      category |-> <<"F","r","o","n","t","e","n","d">>],
     [name |-> <<"P","y","t","h","o","n">>,
      level |-> 82,
      category |-> <<"B","a","c","k","e","n","d">>],
     [name |-> <<"F","a","s","t","A","P","I">>,
      level |-> 78,
      category |-> <<"B","a","c","k","e","n","d">>],
     [name |-> <<"M","y","S","Q","L">>,
      level |-> 80,
      category |-> <<"D","a","t","a","b","a","s","e">>],
     [name |-> <<"G","i","t","/","G","i","t","H","u","b">>,
      level |-> 85,
      category |-> <<"T","o","o","l","s">>]
    >>

----------------------------------------------------------------------------
(* Strings of the catalog and of the query *)

\* str.lower() on one character (the catalog and the queries are ASCII).
LowerChar(c) ==
    CASE c = "A" -> "a" [] c = "B" -> "b" [] c = "C" -> "c" [] c = "D" -> "d"
      [] c = "E" -> "e" [] c = "F" -> "f" [] c = "G" -> "g" [] c = "H" -> "h"
      [] c = "I" -> "i" [] c = "J" -> "j" [] c = "K" -> "k" [] c = "L" -> "l"
      [] c = "M" -> "m" [] c = "N" -> "n" [] c = "O" -> "o" [] c = "P" -> "p"
      [] c = "Q" -> "q" [] c = "R" -> "r" [] c = "S" -> "s" [] c = "T" -> "t"
      [] c = "U" -> "u" [] c = "V" -> "v" [] c = "W" -> "w" [] c = "X" -> "x"
      [] c = "Y" -> "y" [] c = "Z" -> "z" [] OTHER -> c

\* str.lower()
lower(s) == [i \in 1..Len(s) |-> LowerChar(s[i])]

\* Python's `a in b` on strings: a occurs in b as a contiguous run.
In(a, b) == \E k \in 0..(Len(b) - Len(a)) : \A j \in 1..Len(a) : a[j] = b[k + j]

Digit(d) ==
    CASE d = 0 -> "0" [] d = 1 -> "1" [] d = 2 -> "2" [] d = 3 -> "3"
      [] d = 4 -> "4" [] d = 5 -> "5" [] d = 6 -> "6" [] d = 7 -> "7"
      [] d = 8 -> "8" [] d = 9 -> "9"

RECURSIVE Decimal(_)
\* The decimal rendering of a natural number in an f-string.
Decimal(n) == IF n < 10 THEN <<Digit(n)>> ELSE Decimal(n \div 10) \o <<Digit(n % 10)>>

----------------------------------------------------------------------------
(* GET /api/search: search_content, main.py 545-571 *)

MatchesTitleOnly(q, project) == In(lower(q), lower(project.title))

\* Lines 552-554: the condition under which a project is a result.
ProjectMatches(q, project) ==
    \/ In(lower(q), lower(project.title))
    \/ In(lower(q), lower(project.description))
    \/ \E t \in 1..Len(project.tech) : In(lower(q), lower(project.tech[t]))

\* Lines 555-560: the result entry of a project. The url is given as the
\* pieces the f-string joins.
ProjectResult(project) ==
    [type |-> "project", title |-> project.title,
     description |-> project.description,
     url |-> <<"/api/projects/", project.id>>]

\* Line 564: the condition under which a skill is a result.
SkillMatches(q, skill) == In(lower(q), lower(skill.name))

\* Lines 565-570: the result entry of a skill.
SkillResult(skill) ==
    [type |-> "skill", title |-> skill.name,
     description |-> skill.category \o <<" ", "-", " ">> \o Decimal(skill.level) \o <<"%">>,
     url |-> <<"/api/skills">>]

RECURSIVE SearchProjects(_, _, _)
\* Lines 551-560: for project in PROJECTS_DATA.
SearchProjects(q, projects, results) ==
    IF projects = <<>> THEN results
    ELSE SearchProjects(q, Tail(projects),
                        IF ProjectMatches(q, Head(projects))
                        THEN Append(results, ProjectResult(Head(projects)))
                        ELSE results)

RECURSIVE SearchSkills(_, _, _)
\* Lines 563-570: for skill in SKILLS_DATA.
SearchSkills(q, skills, results) ==
    IF skills = <<>> THEN results
    ELSE SearchSkills(q, Tail(skills),
                      IF SkillMatches(q, Head(skills))
                      THEN Append(results, SkillResult(Head(skills)))
                      ELSE results)

BlankGivesNothing(q) ==
    IF \A i \in 1..Len(q) : q[i] = " "
    THEN [query |-> q, results |-> <<>>]
    ELSE [query |-> q,
          results |-> SearchSkills(q, SKILLS_DATA, SearchProjects(q, PROJECTS_DATA, <<>>))]

\* search_content(q, category): category is not used by the body.
search_content(q) ==
    [query |-> q,
     results |-> SearchSkills(q, SKILLS_DATA, SearchProjects(q, PROJECTS_DATA, <<>>))]

\* Queries: every string of at most MaxQueryLen of these characters.
QueryChars == {"r", "R", "e", " ", "z"}
Queries == UNION {[1..n -> QueryChars] : n \in 0..MaxQueryLen}

NoSearch == [status |-> 0, q |-> <<>>, body |-> [query |-> <<>>, results |-> <<>>]]

\* GET /api/search?q=...: q is a required str, any string is accepted.
SearchContent(q) ==
    /\ searchOut = NoSearch
    /\ searchOut' = [status |-> 200, q |-> q, body |-> search_content(q)]
    /\ UNCHANGED <<PROJECTS_DATA, projectOut>>
    /\ UNCHANGED contactVars

\* The response of the search has been sent.
SearchAnswered ==
    /\ searchOut # NoSearch
    /\ searchOut' = NoSearch
    /\ UNCHANGED <<PROJECTS_DATA, projectOut>>
    /\ UNCHANGED contactVars

----------------------------------------------------------------------------
(* Answers of the /api/projects endpoints *)

\* An answer: the endpoint, its arguments (project_id, or featured as a
\* sequence that is empty for None), the HTTP status and the records returned.
Answer(op, project_id, featured, status, body) ==
    [op |-> op, project_id |-> project_id, featured |-> featured,
     status |-> status, body |-> body]

NoAnswer == Answer("none", "", <<>>, 0, <<>>)

----------------------------------------------------------------------------
(* POST /api/projects: create_project, main.py 425-441 *)

\* Sample ProjectCreate bodies.
ProjectInputs ==
    {[title |-> <<"R", "e">>, category |-> "Tool",
      description |-> <<"z", " ", "e">>, tech |-> << <<"E", "r">> >>,
      github |-> "https://example.org/a", demo |-> "https://example.org/b",
      featured |-> FALSE],
     [title |-> <<"z">>, category |-> "Tool",
      description |-> <<"r", "R">>, tech |-> << >>,
      github |-> "https://example.org/c", demo |-> "https://example.org/d",
      featured |-> TRUE]}

\* Lines 428-438: new_project.
NewProjectTakesFirstId(project) ==
    [id |-> InitialProjects[1].id, title |-> project.title, category |-> project.category,
     description |-> project.description, tech |-> project.tech,
     github |-> project.github, demo |-> project.demo,
     featured |-> project.featured, created_at |-> clock]

new_project(project) ==
    [id |-> uuid4, title |-> project.title, category |-> project.category,
     description |-> project.description, tech |-> project.tech,
     github |-> project.github, demo |-> project.demo,
     featured |-> project.featured, created_at |-> clock]

CreateProject(project) ==
    /\ Len(PROJECTS_DATA) < Len(InitialProjects) + MaxCreated
    /\ PROJECTS_DATA' = Append(PROJECTS_DATA, new_project(project))
    /\ issued' = issued + 1
    /\ clock' = clock + 1
    /\ projectOut' = Answer("create_project", "", <<>>, 200, <<new_project(project)>>)
    /\ UNCHANGED searchOut
    /\ UNCHANGED <<file, running, pc, contact, messages, saved, task, response,
                   emailed, events, errorLog>>

----------------------------------------------------------------------------
(* GET /api/projects and GET /api/projects/{project_id}, main.py 407-423 *)

\* featured: Optional[bool], None being the empty sequence.
FeaturedArgs == {<<>>, <<TRUE>>, <<FALSE>>}

\* Lines 410-415: the whole list, or the projects whose featured flag equals
\* the argument.
get_projects(featured) ==
    IF featured = <<>> THEN PROJECTS_DATA
    ELSE SelectSeq(PROJECTS_DATA, LAMBDA p : p.featured = featured[1])

GetProjects(featured) ==
    /\ projectOut = NoAnswer
    /\ projectOut' = Answer("get_projects", "", featured, 200, get_projects(featured))
    /\ UNCHANGED <<PROJECTS_DATA, searchOut>>
    /\ UNCHANGED contactVars

RECURSIVE next_project(_, _)
\* Line 420: next((p for p in PROJECTS_DATA if p["id"] == project_id), None),
\* the result given as a sequence that is empty for None.
next_project(projects, project_id) ==
    IF projects = <<>> THEN <<>>
    ELSE IF Head(projects).id = project_id THEN <<Head(projects)>>
    ELSE next_project(Tail(projects), project_id)

\* Lines 420-423: the project found, or HTTPException(404).
get_project(project_id) ==
    LET project == next_project(PROJECTS_DATA, project_id)
    IN IF project = <<>>
       THEN Answer("get_project", project_id, <<>>, 404, <<>>)
       ELSE Answer("get_project", project_id, <<>>, 200, project)

\* Sample project ids: ids of the fixture, ids create_project gives, and ids
\* of no project.
ProjectIds ==
    {"1", "3", "5", "6", ""} \cup {"uuid-" \o ToString(k) : k \in 1..(MaxCreated + 1)}

GetProject(project_id) ==
    /\ projectOut = NoAnswer
    /\ projectOut' = get_project(project_id)
    /\ UNCHANGED <<PROJECTS_DATA, searchOut>>
    /\ UNCHANGED contactVars

\* The answer of a /api/projects endpoint has been sent.
ProjectAnswered ==
    /\ projectOut # NoAnswer
    /\ projectOut' = NoAnswer
    /\ UNCHANGED <<PROJECTS_DATA, searchOut>>
    /\ UNCHANGED contactVars

----------------------------------------------------------------------------
(* Specifications *)

CatalogInit ==
    /\ PROJECTS_DATA = InitialProjects
    /\ searchOut = NoSearch
    /\ projectOut = NoAnswer

Init == ContactInit /\ CatalogInit

\* The contact-submission pipeline under MaxRequests submissions.
Next ==
    \/ \E r \in Requests, c \in Bodies : Submit(r, c)
    \/ \E r \in Requests, readable \in BOOLEAN : Load(r, readable)
    \/ \E r \in Requests, w \in WriteOutcomes : Store(r, w)
    \/ \E r \in Requests : AddTask(r)
    \/ \E r \in Requests : Return(r)
    \/ \E r \in Requests : RunBackground(r)
    \/ \E r \in Requests, smtpOk \in BOOLEAN : SendEmail(r, smtpOk)

Spec == Init /\ [][Next]_vars

\* The catalog under searches and project creations.
SearchNext ==
    \/ \E q \in Queries : SearchContent(q)
    \/ SearchAnswered
    \/ \E project \in ProjectInputs : CreateProject(project)

SearchInit == Init /\ file = NoFile

SearchSpec == SearchInit /\ [][SearchNext]_vars

\* Sample queries for the searches that run among the project requests.
SampleQueries == {<<>>, <<"r", "e">>, <<"z">>}

\* The project list under creations, reads and searches in any order. Every
\* handler is `async def` without an await, so each request is one step.
CatalogNext ==
    \/ \E project \in ProjectInputs : CreateProject(project)
    \/ \E featured \in FeaturedArgs : GetProjects(featured)
    \/ \E project_id \in ProjectIds : GetProject(project_id)
    \/ ProjectAnswered
    \/ \E q \in SampleQueries : SearchContent(q)
    \/ SearchAnswered

CatalogSpec == SearchInit /\ [][CatalogNext]_vars

----------------------------------------------------------------------------
(* Properties of the contact-submission pipeline, checked under Spec *)

IsPrefix(a, b) == Len(a) <= Len(b) /\ \A i \in 1..Len(a) : a[i] = b[i]

\* The records the running server has added to the store.
NewRecords == SelectSeq(StoreContent(file), LAMBDA m : m.id # EarlierRecord.id)

\* The submissions answered with success and an id.
Succeeded == {r \in Requests : response[r].status = 200 /\ response[r].id # None}

\* The submissions whose handler body has started and not yet returned.
InHandler == {r \in Requests : pc[r] \in {"loaded", "saved", "scheduled"}}

\* The store has not been left unparsable by a failed write.
StoreIntact == ~file.exists \/ file.valid

\* C1: whenever no handler is mid-way and the store is intact, the store
\* holds exactly one new record per submission answered with an id, the ids
\* of these records are pairwise distinct and they are the ids answered: no
\* interleaving of the handlers and the background tasks loses an update.
NoLostUpdate ==
    (InHandler = {} /\ StoreIntact) =>
        /\ Len(NewRecords) = Cardinality(Succeeded)
        /\ \A i, j \in 1..Len(NewRecords) :
              i # j => NewRecords[i].id # NewRecords[j].id
        /\ {NewRecords[i].id : i \in 1..Len(NewRecords)}
              = {response[r].id : r \in Succeeded}

\* Every submission has been answered with an id while the background task
\* of one of them is still running.
AllSubmissionsStored ==
    /\ \A r \in Requests : r \in Succeeded
    /\ Len(NewRecords) = MaxRequests
    /\ \E r \in Requests : task[r] = "running"

\* A body that breaks a constraint of ContactMessage, stated field by field.
Violates(c) ==
    \/ c.name < 2 \/ c.name > 100
    \/ c.email = "not-an-email"
    \/ c.subject < 5 \/ c.subject > 200
    \/ c.message < 10 \/ c.message > 1000

RejectedUntouched ==
    /\ \A r \in Requests :
          (pc[r] # "idle" /\ Violates(contact[r])) =>
              /\ pc[r] = "rejected"
              /\ response[r] = ValidationFailure
              /\ saved[r] = NotCalled
              /\ task[r] = "none"
              /\ events[r] = <<>>
    /\ \A i \in 1..Len(StoreContent(file)) : ~Violates(StoreContent(file)[i])

RejectionStep ==
    \A r \in Requests :
        (pc[r] = "idle" /\ pc'[r] # "idle" /\ Violates(contact'[r])) =>
            /\ file' = file
            /\ task' = task
            /\ saved' = saved
            /\ issued' = issued

\* C2: a submission that breaks a field constraint is answered with a
\* validation failure (422) in a step that leaves the store and the task list
\* as they were; save_contact_message is never called for it, no send_email
\* task is ever scheduled for it, and no record of the store breaks a
\* constraint.
InvalidSubmissionHasNoEffect == []RejectedUntouched /\ [][RejectionStep]_vars

\* A submission was rejected after another one had been stored.
RejectedBesideStored ==
    /\ \E r \in Requests : pc[r] = "rejected" /\ response[r].status = 422
    /\ Len(NewRecords) >= 1

AfterSave == {"saved", "scheduled", "responded"}

SaveNeverRaises ==
    \A r \in Requests :
        /\ pc[r] \in AfterSave => (~saved[r].raised /\ saved[r] # NotCalled)
        /\ response[r].status # 500
        /\ (pc[r] = "responded" /\ saved[r].value = None) =>
              /\ response[r] = [status |-> 200, success |-> TRUE, id |-> None]
              /\ task[r] \in {"scheduled", "running", "done"}

\* A step in which save_contact_message ends without the new record being in
\* the store: the file is as it was, or it no longer parses.
FailedAppendStep ==
    \A r \in Requests :
        (pc[r] \in {"queued", "loaded"} /\ pc'[r] = "saved"
            /\ (file' = file \/ ~file'.valid)) =>
                saved'[r] = Returned(None)

\* C3: when the append fails (the read raises, open raises or the write
\* raises), save_contact_message returns None and does not raise;
\* submit_contact then still schedules send_email and answers 200 with
\* success = true and id = null, and the 500 branch is never taken.
PersistenceFailureStillSucceeds == []SaveNeverRaises /\ [][FailedAppendStep]_vars

\* A submission whose append failed has been answered.
AnsweredAfterFailedAppend ==
    \E r \in Requests :
        /\ pc[r] = "responded"
        /\ saved[r].value = None
        /\ errorLog # <<>>
        /\ response[r].success /\ response[r].id = None
        /\ task[r] = "scheduled"

PipelineOrder == <<"persist", "scheduled", "response", "notify">>

\* C4: the events of a submission happen in the order persist attempt, notify
\* scheduled, response produced, notify started: the append has ended before
\* the response exists and send_email starts only after the response.
EventsInPipelineOrder ==
    \A r \in Requests :
        /\ IsPrefix(events[r], PipelineOrder)
        /\ response[r].status = 200 =>
              (Len(events[r]) >= 3 /\ saved[r] # NotCalled /\ pc[r] = "responded")
        /\ task[r] \in {"running", "done"} =>
              (events[r] = PipelineOrder /\ response[r].status = 200)

\* A submission has gone through the four events.
NotifyStartedAfterResponse ==
    \E r \in Requests : events[r] = PipelineOrder /\ task[r] = "running"

\* C5 (as claimed): every step leaves the records of the store in place, in
\* order, possibly followed by a new one.
StoreIsAppendOnly == [][IsPrefix(StoreContent(file), StoreContent(file'))]_vars

CorruptAtLoad(r) == pc[r] = "queued" /\ pc'[r] # "queued" /\ file.exists /\ ~file.valid

\* C6 (as claimed): an append that finds the store corrupt goes on with an
\* empty prior list instead of failing.
CorruptStoreTreatedAsEmpty ==
    [][\A r \in Requests :
          CorruptAtLoad(r) => (pc'[r] = "loaded" /\ messages'[r] = <<>>)]_vars

FailsOnBadStore ==
    \A r \in Requests :
        /\ CorruptAtLoad(r) =>
              /\ pc'[r] = "saved"
              /\ saved'[r] = Returned(None)
              /\ file' = file
        /\ (pc[r] = "queued" /\ pc'[r] = "saved") =>
              /\ file.exists
              /\ saved'[r] = Returned(None)
              /\ file' = file
              /\ issued' = issued
        /\ (pc[r] = "queued" /\ pc'[r] = "loaded") =>
              messages'[r] = IF file.exists THEN file.records ELSE <<>>

\* C6 (amended): an append that finds the store unreadable or corrupt fails:
\* save_contact_message writes nothing, leaves the file as it is, generates
\* no id and returns None. The prior list is taken as empty only when the
\* file does not exist.
UnreadableStoreFailsAppend == [][FailsOnBadStore]_vars

\* An append found the store not to be JSON and returned None.
AppendFoundCorruptStore ==
    /\ file.exists /\ ~file.valid
    /\ \E i \in 1..Len(errorLog) : errorLog[i] = "JSONDecodeError"
    /\ \E r \in Requests : pc[r] = "responded" /\ response[r].id = None

RoundTripStep ==
    \A r \in Requests :
        (pc[r] = "loaded" /\ pc'[r] = "saved" /\ saved'[r].value # None) =>
            LET old == StoreContent(file)
                new == StoreContent(file')
            IN /\ file'.exists /\ file'.valid
               /\ Len(new) = Len(old) + 1
               /\ SubSeq(new, 1, Len(old)) = old
               /\ new[Len(new)].id = saved'[r].value
               /\ new[Len(new)].name = contact[r].name
               /\ new[Len(new)].email = contact[r].email
               /\ new[Len(new)].subject = contact[r].subject
               /\ new[Len(new)].message = contact[r].message

\* C7: when save_contact_message returns an id, the store read back is the
\* previous list followed by one record that has this id and the name, email,
\* subject and message of the submission.
StoreRoundTrip == [][RoundTripStep]_vars

\* The second record of the running server has been stored and answered.
SecondRecordStored ==
    /\ Len(NewRecords) >= 2
    /\ \E r \in Requests :
          /\ response[r].id = NewRecords[Len(NewRecords)].id
          /\ contact[r].name = NewRecords[Len(NewRecords)].name

Occurrences(seq, e) == Cardinality({i \in 1..Len(seq) : seq[i] = e})

EmailContained ==
    \A r \in Requests :
        /\ ~emailed[r].raised
        /\ Occurrences(events[r], "notify") <= 1
        /\ task[r] = "done" => emailed[r].value \in BOOLEAN

EmailStep ==
    \A r \in Requests :
        (task[r] = "running" /\ task'[r] # "running") =>
            /\ task'[r] = "done"
            /\ response' = response
            /\ file' = file
            /\ pc' = pc
            /\ [task EXCEPT ![r] = "done"] = task'

\* C8: send_email returns True or False and never raises; the step in which
\* it ends, with either outcome, leaves every response, the store and every
\* handler as they were, so the two outcomes give the same response and the
\* same store; and it is started at most once per submission.
NotificationOutcomeInvisible == []EmailContained /\ [][EmailStep]_vars

\* send_email has failed for a submission answered with success.
EmailFailedAfterSuccess ==
    \E r \in Requests :
        /\ task[r] = "done"
        /\ emailed[r] = Returned(FALSE)
        /\ response[r].status = 200 /\ response[r].success

----------------------------------------------------------------------------
(* Properties of the search, checked under SearchSpec *)

IsBlank(q) == \A i \in 1..Len(q) : q[i] = " "

\* C9 (as claimed): a search with an empty or whitespace-only q returns no
\* result.
BlankQueryReturnsNothing ==
    (searchOut.status = 200 /\ IsBlank(searchOut.q)) => searchOut.body.results = <<>>

\* The step in which search_content returns.
SearchReturns == searchOut = NoSearch /\ searchOut'.status = 200

\* The text has Len(q) consecutive spaces somewhere.
HasSpaces(q, text) ==
    \E k \in 1..(Len(text) + 1) :
        \A j \in 0..(Len(q) - 1) : k + j <= Len(text) /\ text[k + j] = " "

ProjectHasSpaces(q, project) ==
    \/ HasSpaces(q, project.title)
    \/ HasSpaces(q, project.description)
    \/ \E t \in 1..Len(project.tech) : HasSpaces(q, project.tech[t])

BlankSearchStep ==
    (SearchReturns /\ IsBlank(searchOut'.q)) =>
        LET q == searchOut'.q
            res == searchOut'.body.results
            projects == {i \in 1..Len(PROJECTS_DATA) : ProjectHasSpaces(q, PROJECTS_DATA[i])}
            skills == {i \in 1..Len(SKILLS_DATA) : HasSpaces(q, SKILLS_DATA[i].name)}
        IN /\ Len(res) = Cardinality(projects) + Cardinality(skills)
           /\ \A i \in projects :
                 \E k \in 1..Len(res) :
                     /\ res[k].type = "project"
                     /\ res[k].url = <<"/api/projects/", PROJECTS_DATA[i].id>>
           /\ \A i \in skills :
                 \E k \in 1..Len(res) :
                     res[k].type = "skill" /\ res[k].title = SKILLS_DATA[i].name
           /\ q = <<>> => Len(res) = Len(PROJECTS_DATA) + Len(SKILLS_DATA)

\* C9 (amended): a search with an empty or whitespace-only q is accepted
\* (200) and returns exactly the projects whose title, description or a tech
\* tag contains q and the skills whose name contains q; for the empty q that
\* is every project and every skill, never the empty list.
BlankQueryMatchesBySubstring == [][BlankSearchStep]_vars

\* The empty query has returned the whole catalog, a created project included.
EmptyQueryReturnedEverything ==
    /\ searchOut.status = 200
    /\ searchOut.q = <<>>
    /\ Len(PROJECTS_DATA) > Len(InitialProjects)
    /\ Len(searchOut.body.results) = Len(PROJECTS_DATA) + Len(SKILLS_DATA)

\* needle occurs in text as a contiguous run, letter case ignored.
Occurs(needle, text) ==
    \E k \in 1..(Len(text) + 1) :
        \A j \in 1..Len(needle) :
            /\ k + j - 1 <= Len(text)
            /\ LowerChar(text[k + j - 1]) = LowerChar(needle[j])

ProjectWanted(q, project) ==
    \/ Occurs(q, project.title)
    \/ Occurs(q, project.description)
    \/ \E t \in 1..Len(project.tech) : Occurs(q, project.tech[t])

SearchStep ==
    SearchReturns =>
        LET q == searchOut'.q
            res == searchOut'.body.results
            np == Len(PROJECTS_DATA)
            n == np + Len(SKILLS_DATA)
            \* positions 1..np are the projects, np+1..n the skills
            wanted == {i \in 1..n :
                          IF i <= np THEN ProjectWanted(q, PROJECTS_DATA[i])
                                     ELSE Occurs(q, SKILLS_DATA[i - np].name)}
            Rank(i) == Cardinality({j \in wanted : j <= i})
        IN /\ searchOut'.body.query = q
           /\ Len(res) = Cardinality(wanted)
           /\ \A i \in wanted :
                 IF i <= np
                 THEN /\ res[Rank(i)].type = "project"
                      /\ res[Rank(i)].title = PROJECTS_DATA[i].title
                      /\ res[Rank(i)].description = PROJECTS_DATA[i].description
                      /\ res[Rank(i)].url = <<"/api/projects/", PROJECTS_DATA[i].id>>
                 ELSE /\ res[Rank(i)].type = "skill"
                      /\ res[Rank(i)].title = SKILLS_DATA[i - np].name
                      /\ res[Rank(i)].url = <<"/api/skills">>

\* C10: search_content(q) returns q as 'query' and, as 'results', one entry
\* for each project of PROJECTS_DATA (created ones included) whose title,
\* description or a tech tag contains q, letter case ignored, in the order of
\* PROJECTS_DATA, followed by one entry for each skill of SKILLS_DATA whose
\* name contains q, in the order of SKILLS_DATA, and nothing else.
SearchReturnsExactlyTheMatches == [][SearchStep]_vars

\* A search for "Re" has returned some but not all projects, a created one
\* among them, and some skills.
MixedSearchResult ==
    /\ searchOut.status = 200
    /\ searchOut.q = <<"R", "e">>
    /\ Len(PROJECTS_DATA) > Len(InitialProjects)
    /\ LET res == searchOut.body.results
       IN /\ \E k \in 1..Len(res) : res[k].type = "skill"
          /\ \E k \in 1..Len(res) :
                res[k].type = "project" /\ res[k].title = <<"R", "e">>
          /\ Len(res) < Len(PROJECTS_DATA) + Len(SKILLS_DATA)

----------------------------------------------------------------------------
(* Properties of the project list, checked under CatalogSpec *)

ProjectIdsOf(projects) == {projects[i].id : i \in 1..Len(projects)}

IdsDistinct ==
    \A i, j \in 1..Len(PROJECTS_DATA) :
        i # j => PROJECTS_DATA[i].id # PROJECTS_DATA[j].id

\* A step that changes the list is a create_project that adds one record at
\* the end, with an id no project had, and returns that record.
CreateStep ==
    PROJECTS_DATA' # PROJECTS_DATA =>
        LET n == Len(PROJECTS_DATA)
        IN /\ Len(PROJECTS_DATA') = n + 1
           /\ SubSeq(PROJECTS_DATA', 1, n) = PROJECTS_DATA
           /\ PROJECTS_DATA'[n + 1].id \notin ProjectIdsOf(PROJECTS_DATA)
           /\ projectOut'.op = "create_project"
           /\ projectOut'.status = 200
           /\ projectOut'.body = <<PROJECTS_DATA'[n + 1]>>

\* A step in which get_projects, get_project or search_content answers.
ReadStep ==
    \/ projectOut = NoAnswer /\ projectOut'.op \in {"get_projects", "get_project"}
    \/ searchOut = NoSearch /\ searchOut'.status = 200

GetProjectStep ==
    (projectOut = NoAnswer /\ projectOut'.op = "get_project") =>
        LET id == projectOut'.project_id
            found == {i \in 1..Len(PROJECTS_DATA) : PROJECTS_DATA[i].id = id}
        IN IF found = {}
           THEN projectOut'.status = 404 /\ projectOut'.body = <<>>
           ELSE /\ projectOut'.status = 200
                /\ \A i \in found : projectOut'.body = <<PROJECTS_DATA[i]>>

ProjectListStep ==
    /\ CreateStep
    /\ ReadStep => PROJECTS_DATA' = PROJECTS_DATA
    /\ GetProjectStep

\* C11: in every state reached by create_project, get_projects, get_project
\* and search_content calls in any order, the ids of PROJECTS_DATA are
\* pairwise distinct; the list changes only by a create_project appending one
\* record with an id no project had, the earlier records staying as they
\* were; the reads leave the list unchanged; and get_project(id) answers the
\* record with that id when there is one and 404 otherwise.
ProjectListConsistent == []IdsDistinct /\ [][ProjectListStep]_vars

\* get_project has returned a created project, the list holding every
\* project the bound allows.
CreatedProjectFetched ==
    /\ Len(PROJECTS_DATA) = Len(InitialProjects) + MaxCreated
    /\ projectOut.op = "get_project"
    /\ projectOut.status = 200
    /\ projectOut.project_id = PROJECTS_DATA[Len(PROJECTS_DATA)].id
    /\ projectOut.body = <<PROJECTS_DATA[Len(PROJECTS_DATA)]>>

====
